---- MODULE Spec2Model ----
(***************************************************************************)
(* Model of the Eris Client (src/unnamed/part_000): the connect queue      *)
(* (queueConnect / tryConnect / disconnect), the Client's shard event      *)
(* handlers, the gateway lookup (getGateway / connect), joinVoiceChannel,  *)
(* the paging of getMessages, the chunked bulk delete (deleteMessages),    *)
(* purgeChannel and the REST convenience methods; and of the Mafia bot     *)
(* (src/mafiaBot/main.js, src/mafiaBot-master/updates/RMBv1.js): its       *)
(* presenceUpdate and message handlers.  Each part has its own             *)
(* specification over the same variables.                                  *)
(*                                                                         *)
(* Time is in milliseconds, as Date.now() and setTimeout see it.  A timer  *)
(* never fires before its delay has passed and may fire any time after.    *)
(* Every action is one event-loop turn.                                    *)
(***************************************************************************)
EXTENDS Integers, Sequences, FiniteSets, TLC

(* ------------------------------ bounds -------------------------------- *)
\* Date.now() when the client is constructed.
StartTime == 100000
\* How many times the clock advances in one behaviour.
MaxTicks == 2
\* options.maxShards: the number of shards the client runs.
MaxShards == 2
\* How long connectQueue gets.
MaxQueue == 2
\* The longest array of message ids handed to deleteMessages.
MaxIDs == 250
\* How long after StartTime the bulk delete is followed, in ms.
DeleteHorizon == 3000
\* How many getGateway() / Client.connect() calls one behaviour makes.
MaxCalls == 3
\* How many joinVoiceChannel calls one behaviour makes.
MaxJoins == 2
\* How many REST requests one behaviour makes.
MaxRequests == 2

(* ------------------------- program constants -------------------------- *)
\* The spacing between two identifies, src/unnamed/part_000:245, 256, 258, 264.
Spacing == 5250
\* The shortest delay of the connect timer, src/unnamed/part_000:264.
MinDelay == 250
\* options.firstShardID, src/unnamed/part_000:88.
FirstShardID == 0
\* options.lastShardID = options.maxShards - 1, src/unnamed/part_000:104-106.
LastShardID == MaxShards - 1
\* The most message ids one bulk delete request takes, src/unnamed/part_000:921, 923.
BatchSize == 100
\* The delay between two bulk delete requests, src/unnamed/part_000:927.
BatchDelay == 1000
\* The delay of purgeChannel after a delete, src/unnamed/part_000:962.
PurgeDelay == 1000
\* The delay of purgeChannel when it has nothing to delete yet, src/unnamed/part_000:968.
PollDelay == 250
\* The limit getMessages asks with when the caller gives none, src/unnamed/part_000:798.
DefaultLimit == 50

ShardIDs == FirstShardID..LastShardID

Min(a, b) == IF a < b THEN a ELSE b
Max(a, b) == IF a > b THEN a ELSE b

VARIABLES
    now,              \* Date.now()
    shards,           \* client.shards: the ids of the shards created so far
    listeners,        \* how many times Client.connect() put its three listeners on each shard
    phase,            \* each shard's connection phase (gateway/Shard)
    ready,            \* client.ready
    startTime,        \* client.startTime
    lastReadyPacket,  \* client.lastReadyPacket
    connectQueue,     \* client.connectQueue: shard ids, head first
    connectTimeout,   \* client.connectTimeout: the handle of the connect timer, if any
    timers,           \* the runtime's pending setTimeout calls of tryConnect: when each is due
    \* history, read only by the properties
    turn,             \* what the connect queue did in the latest event-loop turn
    cancelled,        \* shards whose queued request Client.disconnect() dropped, until they ask again
    lastAdmit,        \* the time of the latest connect() call of the queue, -1 before the first
    \* one deleteMessages call
    messageIDs,       \* the caller's array of message ids (deleteMessages splices it)
    request,          \* the REST request in flight, if any
    deleteTimer,      \* the pending setTimeout of deleteMessages, if any
    promise,          \* the promise deleteMessages returned to its caller
    input,            \* history: the array as the caller passed it
    batches,          \* history: the requests sent, in order
    \* the gateway lookup
    options,          \* client.options: firstShardID, lastShardID, maxShards
    gatewayURL,       \* client.gatewayURL, NoURL while undefined
    pending,          \* the GATEWAY requests in flight: who waits for each
    lookups,          \* history: calls and GATEWAY requests counted
    \* one voice connection
    connectionReady,  \* connection.ready
    joins,            \* the joinVoiceChannel calls made, in order
    \* one purgeChannel call
    purge,            \* its closure: limit, toDelete, deleted, done, its promise, the fetch in flight
    pollTimer,        \* the pending setTimeout of checkToDelete, if any
    \* one getMessages call
    paging,           \* its closure (limit, logs), its promise, the request in flight, and history
    \* the REST convenience methods
    sent,             \* history: the requests handed to requestHandler.request, in order
    \* the Mafia bot (src/mafiaBot, src/mafiaBot-master)
    bot               \* its version, one guild member's game and role, the latest message handled

queueVars == <<shards, listeners, phase, ready, startTime, lastReadyPacket, connectQueue,
               connectTimeout, timers, turn, cancelled, lastAdmit>>

deleteVars == <<messageIDs, request, deleteTimer, promise, input, batches>>

gatewayVars == <<options, gatewayURL, pending, lookups>>

voiceVars == <<connectionReady, joins>>

purgeVars == <<purge, pollTimer>>

vars == <<now, queueVars, deleteVars, gatewayVars, voiceVars, purgeVars, paging, sent, bot>>

\* What the connect queue and the shard handlers leave alone ...
outsideQueue == <<deleteVars, gatewayVars, voiceVars, purgeVars, paging, sent, bot>>

\* ... and what deleteMessages leaves alone.
outsideDelete == <<queueVars, gatewayVars, voiceVars, purgeVars, paging, sent, bot>>

\* What joinVoiceChannel and the voice connection's events leave alone.
outsideVoice == <<now, queueVars, deleteVars, gatewayVars, purgeVars, paging, sent, bot>>

\* What purgeChannel leaves alone, deleteMessages apart.
outsidePurge == <<queueVars, gatewayVars, voiceVars, paging, sent, bot>>

\* What the REST convenience methods leave alone.
outsideRest == <<now, queueVars, deleteVars, gatewayVars, voiceVars, purgeVars, paging, bot>>

\* What the handlers of the bot leave alone.
outsideBot == <<now, queueVars, deleteVars, gatewayVars, voiceVars, purgeVars, paging, sent>>

\* What getMessages leaves alone.
outsideGet == <<now, queueVars, deleteVars, gatewayVars, voiceVars, purgeVars, sent, bot>>

NoTimer == [armed |-> FALSE, due |-> 0]

NoRequest == [active |-> FALSE, top |-> FALSE, chained |-> FALSE]

\* client.gatewayURL before the first lookup: undefined.  A URL is a host, a
\* trailing slash or none, and a query string.
NoURL == [host |-> "", slash |-> FALSE, query |-> ""]

\* A turn without a getGateway() / connect() call or response.
NoLookup == [call |-> "none", cached |-> FALSE, requested |-> FALSE,
             settled |-> "none", value |-> NoURL, created |-> {}]

\* A turn in which the queue was not involved and the Client emitted nothing:
\* timer says the turn was the connect timer's, calls lists the queue's
\* decisions, emits the events the Client emitted, armed says tryConnect
\* armed the timer, lookup what a getGateway() / connect() call or the
\* response to its request did.
Quiet == [timer |-> FALSE, calls |-> <<>>, emits |-> <<>>, armed |-> FALSE,
          lookup |-> NoLookup]

(* ------------------------------ Shard --------------------------------- *)
\* shard.connecting and shard.ready, read by the Client.
connecting(ph, s) == ph[s] = "connecting"
shardReady(ph, s) == ph[s] = "connected"

\* Shard.connect(): a disconnected shard enters the connecting phase
\* synchronously; the state machine has no other way into it.
ShardConnect(ph, s) ==
    IF ph[s] = "disconnected" THEN [ph EXCEPT ![s] = "connecting"] ELSE ph

\* Shard.disconnect(options), or the loss of the connection: the shard ends up
\* disconnected.
ShardDisconnected(ph, s) == [ph EXCEPT ![s] = "disconnected"]

\* The READY packet ends the connecting phase ...
ShardConnected(ph, s) == [ph EXCEPT ![s] = "connected"]

\* ... and the shard stamps client.lastReadyPacket with the time it came
\* (READY or RESUMED).
ReadyPacketStamp(t) == t

(* --------------------------- connect queue ---------------------------- *)
\* The queue's part of the client state, as one record the calls below pass on.
Cur ==
    [now |-> now, shards |-> shards, listeners |-> listeners, phase |-> phase,
     lastReadyPacket |-> lastReadyPacket, connectQueue |-> connectQueue,
     connectTimeout |-> connectTimeout, timers |-> timers, turn |-> turn,
     cancelled |-> cancelled,
     lastAdmit |-> lastAdmit]

\* this.shards.find((shard) => shard.connecting)
AnyConnecting(st) == \E s \in st.shards : connecting(st.phase, s)

\* this.lastReadyPacket <= Date.now() - 5250
SpacingElapsed(st) == st.lastReadyPacket <= st.now - Spacing

\* Mutant of CanAdmit: the test forgets the shards that are connecting.
CanAdmitSpacingOnly(st) == SpacingElapsed(st)

\* The admission test of queueConnect and of the timer.
CanAdmit(st) == SpacingElapsed(st) /\ ~AnyConnecting(st)

\* Math.min(Math.max(250, Date.now() - 5250 - this.lastReadyPacket), 5250)
TimerDelay(st) == Min(Max(MinDelay, st.now - Spacing - st.lastReadyPacket), Spacing)

\* Some other shard asked before the entry at position idx of the queue (or,
\* with idx past the end, before a shard that is not in the queue) and waits.
OthersAhead(q, idx, s) == \E j \in 1..Len(q) : j < idx /\ q[j] # s

\* History: one queueConnect call or one admission by the timer.
Call(st, kind, s, idx, lrpAfter) ==
    [kind |-> kind, shard |-> s,
     pred |-> CanAdmit(st),
     qEmpty |-> (Len(st.connectQueue) = 0),
     busy |-> AnyConnecting(st),
     overtook |-> (kind # "queued" /\ OthersAhead(st.connectQueue, idx, s)),
     dropped |-> (kind = "timer" /\ s \in st.cancelled),
     tooSoon |-> (kind # "queued" /\ st.lastAdmit >= 0 /\ st.now - st.lastAdmit < Spacing),
     recorded |-> (kind # "queued" /\ lrpAfter = st.now)]

Logged(st, call) == [st.turn EXCEPT !.calls = Append(st.turn.calls, call)]

\* The timestamp queueConnect leaves in lastReadyPacket when it connects a shard.
StampDirect(st) == st.lastReadyPacket

\* The timestamp the timer leaves in lastReadyPacket when it connects a shard.
StampTimer(st) == st.lastReadyPacket + Spacing

\* this.connectTimeout = setTimeout(..., delay): the runtime has one more
\* pending timer and the client holds its handle.
setConnectTimeout(st) ==
    [st EXCEPT !.connectTimeout = [armed |-> TRUE, due |-> st.now + TimerDelay(st)],
               !.timers = Append(st.timers, st.now + TimerDelay(st)),
               !.turn = [st.turn EXCEPT !.armed = TRUE]]

\* Mutant of tryConnect: the timer is set whether or not one is pending.
tryConnectAlways(st) == setConnectTimeout(st)

\* tryConnect(): arm the timer unless the client holds the handle of one.
tryConnect(st) ==
    IF ~st.connectTimeout.armed THEN setConnectTimeout(st) ELSE st

\* queueConnect(shard)
queueConnect(st, s) ==
    IF CanAdmit(st)
    THEN [st EXCEPT
            !.phase = ShardConnect(st.phase, s),
            !.lastReadyPacket = StampDirect(st),
            !.turn = Logged(st, Call(st, "direct", s, Len(st.connectQueue) + 1, StampDirect(st))),
            !.cancelled = st.cancelled \ {s},
            !.lastAdmit = st.now]
    ELSE tryConnect([st EXCEPT
            !.connectQueue = Append(st.connectQueue, s),
            !.turn = Logged(st, Call(st, "queued", s, Len(st.connectQueue) + 1, st.lastReadyPacket)),
            !.cancelled = st.cancelled \ {s}])

\* The callback of the connect timer.
timerCallback(st) ==
    LET st1 == IF Len(st.connectQueue) > 0 /\ CanAdmit(st)
               THEN [st EXCEPT
                        !.connectQueue = Tail(st.connectQueue),
                        !.phase = ShardConnect(st.phase, Head(st.connectQueue)),
                        !.lastReadyPacket = StampTimer(st),
                        !.turn = Logged(st, Call(st, "timer", Head(st.connectQueue), 1, StampTimer(st))),
                        !.lastAdmit = st.now]
               ELSE st
        st2 == [st1 EXCEPT !.connectTimeout = NoTimer]
    IN  IF Len(st2.connectQueue) > 0 THEN tryConnect(st2) ELSE st2

\* Mutant of IsMissing: the loop takes every shard for a new one.
AlwaysMissing(st, i) == TRUE

\* if(!shard), with shard = this.shards.get(i)
IsMissing(st, i) == i \notin st.shards

\* Lines 145-214: shard i is taken from client.shards; when it is missing it
\* is created, added, and given the 'ready', 'resume' and 'disconnect'
\* listeners of the Client.
getOrAdd(st, i) ==
    IF IsMissing(st, i)
    THEN [st EXCEPT !.shards = @ \cup {i}, !.listeners[i] = @ + 1]
    ELSE st

\* Mutant of connectLoop: the loop stops before options.lastShardID.
RECURSIVE connectLoopShort(_, _)
connectLoopShort(st, i) ==
    IF i >= options.lastShardID THEN st
    ELSE connectLoopShort(queueConnect(getOrAdd(st, i), i), i + 1)

\* The body of Client.connect()'s then-callback: every shard of the range is
\* created if missing and queued.
RECURSIVE connectLoop(_, _)
connectLoop(st, i) ==
    IF i > options.lastShardID THEN st
    ELSE connectLoop(queueConnect(getOrAdd(st, i), i), i + 1)

\* Mutant of QueueAfterDisconnect: disconnect() leaves the queue as it is.
QueueKept(q) == q

\* What Client.disconnect() leaves in connectQueue.
QueueAfterDisconnect(q) == <<>>

\* this.emit(event, shard.id) / this.emit(event): what the Client emitted.
Emitted(event, s) == [event |-> event, shard |-> s]

\* Mutant of AlreadyReady: the handler forgets that the client is ready.
NeverAlreadyReady(r) == FALSE

\* if(this.ready) { return; } in the 'ready' and 'resume' handlers
AlreadyReady(r) == r

\* The Client's handler of a shard's 'ready' (event = "shardReady") or 'resume'
\* (event = "shardResume").  c holds client.ready, client.startTime and what the
\* Client has emitted in this turn; ph is the shards' phases when it runs.
onShardReady(c, event, s, ph) ==
    LET c1 == [c EXCEPT !.emits = Append(c.emits, Emitted(event, s))]
    IN  IF AlreadyReady(c.ready) \/ \E o \in shards : ~shardReady(ph, o)
        THEN c1
        ELSE [ready |-> TRUE, startTime |-> now,
              emits |-> Append(c1.emits, Emitted("ready", -1))]

\* The Client's handler of a shard's 'disconnect'.
onShardDisconnect(c, s, ph) ==
    LET c1 == [c EXCEPT !.emits = Append(c.emits, Emitted("shardDisconnect", s))]
    IN  IF ~c.ready \/ \E o \in shards : shardReady(ph, o)
        THEN c1
        ELSE [ready |-> FALSE, startTime |-> 0,
              emits |-> Append(c1.emits, Emitted("disconnect", -1))]

\* shard.emit(event): each listener Client.connect() put on shard s for the
\* event runs, n of them still to come.
RECURSIVE heard(_, _, _, _, _)
heard(c, event, s, ph, n) ==
    IF n = 0 THEN c
    ELSE heard(IF event = "shardDisconnect"
               THEN onShardDisconnect(c, s, ph)
               ELSE onShardReady(c, event, s, ph),
               event, s, ph, n - 1)

\* The client before the handlers of a turn run.
Client == [ready |-> ready, startTime |-> startTime, emits |-> <<>>]

\* this.shards.forEach((shard) => shard.disconnect(options)), from shard i on:
\* a shard that was not disconnected becomes so and emits 'disconnect', which
\* the Client's handler sees at once.
RECURSIVE disconnectEach(_, _, _)
disconnectEach(c, ph, i) ==
    IF i > options.lastShardID THEN [client |-> c, phase |-> ph]
    ELSE IF i \in shards /\ ph[i] # "disconnected"
    THEN disconnectEach(heard(c, "shardDisconnect", i, ShardDisconnected(ph, i), listeners[i]),
                        ShardDisconnected(ph, i), i + 1)
    ELSE disconnectEach(c, ph, i + 1)

\* client.ready, client.startTime and the turn's emissions become what the
\* handlers left.
Handled(c) ==
    /\ ready' = c.ready
    /\ startTime' = c.startTime
    /\ turn' = [Quiet EXCEPT !.emits = c.emits]

\* The variables take the values of the record a call returns.
Becomes(st) ==
    /\ shards' = st.shards
    /\ listeners' = st.listeners
    /\ phase' = st.phase
    /\ lastReadyPacket' = st.lastReadyPacket
    /\ connectQueue' = st.connectQueue
    /\ connectTimeout' = st.connectTimeout
    /\ timers' = st.timers
    /\ turn' = st.turn
    /\ cancelled' = st.cancelled
    /\ lastAdmit' = st.lastAdmit

\* How many times the clock has advanced by time t.
Ticks(t) == ((t - StartTime) \div Spacing) + (((t - StartTime) % Spacing) \div MinDelay)

(* ------------------------------ actions ------------------------------- *)
\* this.options after the constructor: the defaults, overwritten by what the
\* caller gave; lastShardID is maxShards - 1 when the caller gave none.
Constructed(given) ==
    [firstShardID |-> given.firstShardID,
     maxShards |-> given.maxShards,
     lastShardID |-> IF given.lastGiven THEN given.lastShardID ELSE given.maxShards - 1]

\* The options given to a client that runs all MaxShards shards.
AllShards ==
    [firstShardID |-> FirstShardID, maxShards |-> MaxShards,
     lastGiven |-> FALSE, lastShardID |-> 0]

\* The client after new Client(token, given).
Constructor(given) ==
    /\ options = Constructed(given)
    /\ gatewayURL = NoURL
    /\ pending = <<>>
    /\ lookups = [calls |-> 0, uncached |-> 0, requests |-> 0, succeeded |-> 0,
                  overlapped |-> FALSE]
    /\ now = StartTime
    /\ shards = {}
    /\ listeners = [s \in Constructed(given).firstShardID..Constructed(given).lastShardID |-> 0]
    /\ phase = [s \in Constructed(given).firstShardID..Constructed(given).lastShardID |->
                    "disconnected"]
    /\ ready = FALSE
    /\ startTime = 0
    /\ lastReadyPacket = 0
    /\ connectQueue = <<>>
    /\ connectTimeout = NoTimer
    /\ timers = <<>>
    /\ turn = Quiet
    /\ cancelled = {}
    /\ lastAdmit = -1

\* Nothing is being deleted.
NoDelete ==
    /\ messageIDs = <<>>
    /\ request = NoRequest
    /\ deleteTimer = NoTimer
    /\ promise = "none"
    /\ input = <<>>
    /\ batches = <<>>

\* No voice connection is ready and none was asked for.
NoVoice ==
    /\ connectionReady = FALSE
    /\ joins = <<>>

\* No purge has been started: its closure does not exist yet.
NoPurge ==
    [limit |-> 0, filter |-> "none", channel |-> 0, fetched |-> 0, fetching |-> FALSE,
     toDelete |-> <<>>, deleted |-> 0, done |-> FALSE, promise |-> "none", result |-> 0]

NoPurging ==
    /\ purge = NoPurge
    /\ pollTimer = NoTimer

\* getMessages has not been called.
NoPaging ==
    paging = [limit |-> 0, wanted |-> 0, after |-> FALSE, channel |-> 0, paged |-> FALSE,
              sent |-> 0, logs |-> <<>>, requests |-> 0, size |-> 0,
              inFlight |-> FALSE, promise |-> "none", result |-> <<>>]

\* No request has been made.
NoRest == sent = <<>>

\* A message as the bot's handler sees it, and what the handler did with it.
NoMessage == [content |-> <<>>, author |-> "none", ran |-> <<>>, sent |-> 0]

\* The bot of version v in a guild with or without a role named "League of
\* Legends"; the member plays nothing and holds no role.
StartedBot(v, role) ==
    [version |-> v, playRole |-> role, game |-> "none", holds |-> FALSE,
     message |-> NoMessage]

\* No bot runs.
NoBot == bot = StartedBot("none", FALSE)

Init ==
    /\ Constructor(AllShards)
    /\ NoDelete
    /\ NoVoice
    /\ NoPurging
    /\ NoPaging
    /\ NoRest
    /\ NoBot

\* Time passes.
Tick ==
    /\ \E d \in {MinDelay, Spacing} :
          /\ Ticks(now + d) <= MaxTicks
          /\ now' = now + d
    /\ turn' = Quiet
    /\ UNCHANGED <<shards, listeners, phase, ready, startTime, lastReadyPacket, connectQueue,
                   connectTimeout, timers, cancelled, lastAdmit>>
    /\ UNCHANGED outsideQueue

\* Client.connect(), once the gateway URL is known.
ClientConnect ==
    LET st == connectLoop([Cur EXCEPT !.turn = Quiet], options.firstShardID)
    IN  /\ Len(st.connectQueue) <= MaxQueue
        /\ Becomes(st)
        /\ UNCHANGED <<now, ready, startTime, outsideQueue>>

\* A shard asks to be connected again: client.queueConnect(shard).
QueueConnect(s) ==
    LET st == queueConnect([Cur EXCEPT !.turn = Quiet], s)
    IN  /\ s \in shards
        /\ Len(st.connectQueue) <= MaxQueue
        /\ Becomes(st)
        /\ UNCHANGED <<now, ready, startTime, outsideQueue>>

\* `timers` without its entry at position i.
Fired(i) == SubSeq(timers, 1, i - 1) \o SubSeq(timers, i + 1, Len(timers))

\* A timer of tryConnect is due: the runtime drops it and runs its callback.
ConnectTimerFires ==
    \E i \in 1..Len(timers) :
        /\ now >= timers[i]
        /\ Becomes(timerCallback([Cur EXCEPT !.timers = Fired(i),
                                             !.turn = [Quiet EXCEPT !.timer = TRUE]]))
        /\ UNCHANGED <<now, ready, startTime, outsideQueue>>

\* Client.disconnect(options)
ClientDisconnect ==
    LET after == disconnectEach([Client EXCEPT !.ready = FALSE], phase, options.firstShardID)
    IN  /\ Handled(after.client)
        /\ phase' = after.phase
        /\ connectQueue' = QueueAfterDisconnect(connectQueue)
        /\ cancelled' = cancelled \cup {connectQueue[i] : i \in 1..Len(connectQueue)}
        /\ UNCHANGED <<now, shards, listeners, lastReadyPacket, connectTimeout, timers, lastAdmit,
                       outsideQueue>>

\* A connecting shard receives its READY packet, stamps
\* client.lastReadyPacket with the time of the packet and emits 'ready'; the
\* Client's handler turns the client ready when every shard is.
ShardReady(s) ==
    /\ s \in shards
    /\ phase[s] = "connecting"
    /\ phase' = ShardConnected(phase, s)
    /\ lastReadyPacket' = ReadyPacketStamp(now)
    /\ Handled(heard(Client, "shardReady", s, ShardConnected(phase, s), listeners[s]))
    /\ UNCHANGED <<now, shards, listeners, connectQueue, connectTimeout, timers, cancelled, lastAdmit,
                   outsideQueue>>

\* A connecting shard receives RESUMED instead: it stamps
\* client.lastReadyPacket in the same way and emits 'resume'; the Client's
\* handler turns the client ready when every shard is.
ShardResume(s) ==
    /\ s \in shards
    /\ phase[s] = "connecting"
    /\ phase' = ShardConnected(phase, s)
    /\ lastReadyPacket' = ReadyPacketStamp(now)
    /\ Handled(heard(Client, "shardResume", s, ShardConnected(phase, s), listeners[s]))
    /\ UNCHANGED <<now, shards, listeners, connectQueue, connectTimeout, timers, cancelled, lastAdmit,
                   outsideQueue>>

\* A shard loses its connection (or fails to connect) and emits 'disconnect';
\* the Client's handler turns the client not ready when no shard is ready.
ShardDisconnect(s) ==
    /\ s \in shards
    /\ phase[s] # "disconnected"
    /\ phase' = ShardDisconnected(phase, s)
    /\ Handled(heard(Client, "shardDisconnect", s, ShardDisconnected(phase, s), listeners[s]))
    /\ UNCHANGED <<now, shards, listeners, lastReadyPacket, connectQueue, connectTimeout, timers,
                   cancelled, lastAdmit, outsideQueue>>

Next ==
    \/ Tick
    \/ ClientConnect
    \/ \E s \in ShardIDs : QueueConnect(s)
    \/ ConnectTimerFires
    \/ ClientDisconnect
    \/ \E s \in ShardIDs : ShardReady(s)
    \/ \E s \in ShardIDs : ShardResume(s)
    \/ \E s \in ShardIDs : ShardDisconnect(s)

Spec == Init /\ [][Next]_vars

(* ----------------------- connect queue, for ever ---------------------- *)
\* The queue reads its times only as differences from Date.now() (lines 245,
\* 256, 264).  To follow it for as long as one likes, the specification below
\* lets the stored times fall back while `now` stays: a step of MinDelay ms.
\* A lastReadyPacket older than two Spacings gives the same admission test
\* and the same timer delay as one of two Spacings, and is kept at that.
OldestStamp == now - 2 * Spacing

\* A stored time t, MinDelay ms later, not older than `oldest`.
Aged(t, oldest) == Max(t - MinDelay, oldest)

\* Time passes, once every timer that is due has run.
TickLive ==
    /\ \A i \in 1..Len(timers) : timers[i] > now
    /\ lastReadyPacket' = Aged(lastReadyPacket, OldestStamp)
    /\ timers' = [i \in 1..Len(timers) |-> timers[i] - MinDelay]
    /\ connectTimeout' = IF connectTimeout.armed
                         THEN [connectTimeout EXCEPT !.due = @ - MinDelay]
                         ELSE connectTimeout
    /\ lastAdmit' = IF lastAdmit < 0 THEN lastAdmit ELSE Aged(lastAdmit, now - Spacing)
    /\ turn' = Quiet
    /\ UNCHANGED <<now, shards, listeners, phase, ready, startTime, connectQueue, cancelled,
                   outsideQueue>>

\* A connecting shard leaves the connecting phase: READY, RESUMED or a failure.
LeavesConnecting(s) ==
    /\ connecting(phase, s)
    /\ (ShardReady(s) \/ ShardResume(s) \/ ShardDisconnect(s))

\* The client without Client.disconnect().
NextLive ==
    \/ TickLive
    \/ ClientConnect
    \/ \E s \in ShardIDs : QueueConnect(s)
    \/ ConnectTimerFires
    \/ \E s \in ShardIDs : ShardReady(s)
    \/ \E s \in ShardIDs : ShardResume(s)
    \/ \E s \in ShardIDs : ShardDisconnect(s)

\* Time goes on, a timer that is due runs, and a connecting shard does not
\* stay connecting for ever.
FairLive ==
    /\ WF_vars(TickLive)
    /\ WF_vars(ConnectTimerFires)
    /\ \A s \in ShardIDs : WF_vars(LeavesConnecting(s))

SpecLive == Init /\ [][NextLive]_vars /\ FairLive

(* --------------------------- gateway lookup --------------------------- *)
\* The options a caller may give: lastShardID given or not, inside the range
\* of maxShards or not.
GivenOptions ==
    {g \in [firstShardID : 0..1, maxShards : 1..MaxShards,
            lastGiven : BOOLEAN, lastShardID : 0..MaxShards] :
        ~g.lastGiven => g.lastShardID = 0}

\* data.url in the response of the GATEWAY endpoint, when it carries one.
ServerURLs ==
    {[host |-> "gateway.discord.gg", slash |-> sl, query |-> q] :
        sl \in BOOLEAN, q \in {"", "v=5"}}

\* Lines 229-235: the query is cut off, the slash added, and the client's own
\* query appended.
Normalised(u) == [host |-> u.host, slash |-> TRUE, query |-> "encoding=json&v=6"]

\* Mutant of IsCached: getGateway forgets the URL it has.
NeverCached(url) == FALSE

\* if(this.gatewayURL)
IsCached(url) == url # NoURL

\* The ids of the loop of Client.connect().
ShardIDsOf(opts) == opts.firstShardID..opts.lastShardID

\* What a turn of `caller` settles: connect() creates its shards when it resolves.
Settled(caller, how, url) ==
    [NoLookup EXCEPT !.call = caller, !.settled = how, !.value = url,
                     !.created = IF caller = "connect" /\ how = "resolved"
                                 THEN ShardIDsOf(options) \ shards ELSE {}]

\* What a call of getGateway() does: the cached URL at once, or a request.
Called(caller) ==
    IF IsCached(gatewayURL)
    THEN [Settled(caller, "resolved", gatewayURL) EXCEPT !.cached = TRUE]
    ELSE [NoLookup EXCEPT !.call = caller, !.requested = TRUE]

\* A call of getGateway() (by the caller or by Client.connect()) counted.
Counted(cached) ==
    [lookups EXCEPT
        !.calls = @ + 1,
        !.uncached = IF gatewayURL = NoURL THEN @ + 1 ELSE @,
        !.requests = IF cached THEN @ ELSE @ + 1,
        !.overlapped = @ \/ (~cached /\ Len(pending) > 0)]

\* getGateway(), called by `caller`
getGateway(caller) ==
    /\ lookups' = Counted(IsCached(gatewayURL))
    /\ pending' = IF IsCached(gatewayURL) THEN pending ELSE Append(pending, caller)
    /\ UNCHANGED <<options, gatewayURL>>

\* The then-callback of Client.connect(), in a turn that did lk before it.
connectThen(lk) ==
    LET st == connectLoop([Cur EXCEPT !.turn = [Quiet EXCEPT !.lookup = lk]],
                          options.firstShardID)
    IN  /\ Len(st.connectQueue) <= MaxQueue
        /\ Becomes(st)
        /\ UNCHANGED <<now, ready, startTime>>

\* A turn that did lk and left the shards and the queue alone.
noConnect(lk) ==
    /\ turn' = [Quiet EXCEPT !.lookup = lk]
    /\ UNCHANGED <<now, shards, listeners, phase, ready, startTime, lastReadyPacket,
                   connectQueue,
                   connectTimeout, timers, cancelled, lastAdmit>>

\* The request at position i of `pending` is answered and leaves the list.
Answered(i) == pending' = SubSeq(pending, 1, i - 1) \o SubSeq(pending, i + 1, Len(pending))

\* The caller calls client.getGateway().
GetGatewayCall ==
    /\ lookups.calls < MaxCalls
    /\ getGateway("getGateway")
    /\ noConnect(Called("getGateway"))
    /\ UNCHANGED <<deleteVars, voiceVars, purgeVars, paging, sent, bot>>

\* The caller calls client.connect(): with the URL cached the then-callback
\* runs in the same turn.
ConnectCall ==
    /\ lookups.calls < MaxCalls
    /\ getGateway("connect")
    /\ IF IsCached(gatewayURL)
       THEN connectThen(Called("connect"))
       ELSE noConnect(Called("connect"))
    /\ UNCHANGED <<deleteVars, voiceVars, purgeVars, paging, sent, bot>>

\* A GATEWAY request resolves with a URL: the URL is stored, and a waiting
\* connect() goes on to create and queue its shards.
LookupSucceeds ==
    \E i \in 1..Len(pending), u \in ServerURLs :
        /\ gatewayURL' = Normalised(u)
        /\ Answered(i)
        /\ lookups' = [lookups EXCEPT !.succeeded = @ + 1]
        /\ IF pending[i] = "connect"
           THEN connectThen(Settled("connect", "resolved", Normalised(u)))
           ELSE noConnect(Settled(pending[i], "resolved", Normalised(u)))
        /\ UNCHANGED <<options, deleteVars, voiceVars, purgeVars, paging, sent, bot>>

\* A GATEWAY request resolves with data that carries no url, or rejects: the
\* promise of getGateway(), and with it that of connect(), rejects.
LookupFails ==
    \E i \in 1..Len(pending) :
        /\ Answered(i)
        /\ noConnect(Settled(pending[i], "rejected", NoURL))
        /\ UNCHANGED <<options, gatewayURL, lookups, deleteVars, voiceVars, purgeVars, paging, sent, bot>>

InitGateway ==
    /\ \E g \in GivenOptions : Constructor(g)
    /\ NoDelete
    /\ NoVoice
    /\ NoPurging
    /\ NoPaging
    /\ NoRest
    /\ NoBot

NextGateway ==
    \/ GetGatewayCall
    \/ ConnectCall
    \/ LookupSucceeds
    \/ LookupFails
    \/ \E s \in 0..MaxShards : ShardReady(s)
    \/ \E s \in 0..MaxShards : ShardResume(s)
    \/ \E s \in 0..MaxShards : ShardDisconnect(s)

SpecGateway == InitGateway /\ [][NextGateway]_vars

(* --------------------------- deleteMessages --------------------------- *)
\* The array lengths the caller passes.
DeleteSizes == {0, 1, 2, BatchSize, BatchSize + 1, 2 * BatchSize, 2 * BatchSize + 1, MaxIDs}

\* messageIDs.splice(0, 100): what it returns ...
FirstBatch(ids) == SubSeq(ids, 1, BatchSize)

\* Mutant of RestAfterSplice: slice() instead of splice() leaves the array whole.
RestAfterSlice(ids) == ids

\* ... and what it leaves in the array.
RestAfterSplice(ids) == SubSeq(ids, BatchSize + 1, Len(ids))

\* Mutant of DeleteTimerDue: the next batch is not delayed.
DeleteTimerDueAtOnce(t) == t

\* setTimeout(..., 1000) called at time t
DeleteTimerDue(t) == t + BatchDelay

\* Mutant of ContinuesAfter: the continuation runs however the request settled.
ContinuesAlways(req, ok) == req.chained

\* request(...).then(() => setTimeout(...)): the continuation runs only when
\* the request succeeded.
ContinuesAfter(req, ok) == req.chained /\ ok

\* requestHandler.request(...): one request goes out; `rest` is what the call
\* leaves in the caller's array, `top` says the caller holds the promise.
Send(kind, msgs, rest, top, chained) ==
    /\ request' = [active |-> TRUE, top |-> top, chained |-> chained]
    /\ messageIDs' = rest
    /\ batches' = Append(batches, [kind |-> kind, ids |-> msgs, at |-> now, result |-> "pending"])
    /\ promise' = IF top THEN "pending" ELSE promise

\* deleteMessages(channelID, ids)
deleteMessages(ids, top) ==
    IF Len(ids) = 0
    THEN /\ promise' = IF top THEN "resolved" ELSE promise
         /\ messageIDs' = ids
         /\ UNCHANGED <<request, batches>>
    ELSE IF Len(ids) = 1
    THEN Send("single", ids, ids, top, FALSE)
    ELSE IF Len(ids) > BatchSize
    THEN Send("bulk", FirstBatch(ids), RestAfterSplice(ids), top, TRUE)
    ELSE Send("bulk", ids, ids, top, FALSE)

\* The caller calls deleteMessages with an array of n message ids.
DeleteMessagesCall ==
    /\ promise = "none"
    /\ \E n \in DeleteSizes :
          LET ids == [i \in 1..n |-> i]
          IN  /\ input' = ids
              /\ deleteMessages(ids, TRUE)
    /\ UNCHANGED <<now, deleteTimer, outsideDelete>>

\* The request in flight settles: it succeeded (ok) or failed.
RequestSettles(ok) ==
    /\ request' = NoRequest
    /\ batches' = [batches EXCEPT ![Len(batches)].result = IF ok THEN "ok" ELSE "failed"]
    /\ promise' = IF request.top THEN (IF ok THEN "resolved" ELSE "rejected") ELSE promise
    /\ deleteTimer' = IF ContinuesAfter(request, ok)
                      THEN [armed |-> TRUE, due |-> DeleteTimerDue(now)]
                      ELSE deleteTimer
    /\ UNCHANGED <<now, messageIDs, input>>

\* The REST request in flight resolves.
RequestSucceeds ==
    /\ request.active
    /\ RequestSettles(TRUE)
    /\ UNCHANGED outsideDelete

\* The REST request in flight rejects.
RequestFails ==
    /\ request.active
    /\ RequestSettles(FALSE)
    /\ UNCHANGED outsideDelete

\* The timer of deleteMessages fires: the rest of the array is deleted.
DeleteTimerFires ==
    /\ deleteTimer.armed
    /\ now >= deleteTimer.due
    /\ deleteTimer' = NoTimer
    /\ deleteMessages(messageIDs, FALSE)
    /\ UNCHANGED <<now, input, outsideDelete>>

\* Time passes during a bulk delete or a purge.
TickDelete ==
    /\ \E d \in {MinDelay, BatchDelay} :
          /\ now + d <= StartTime + DeleteHorizon
          /\ now' = now + d
    /\ UNCHANGED <<deleteVars, outsideDelete>>

NextDelete ==
    \/ TickDelete
    \/ DeleteMessagesCall
    \/ RequestSucceeds
    \/ RequestFails
    \/ DeleteTimerFires

SpecDelete == Init /\ [][NextDelete]_vars

(* ----------------------------- purgeChannel --------------------------- *)
\* The `limit` arguments tried (-1: no limit) and how many messages the
\* channel holds.
PurgeLimits == {-1, 0, 1, BatchSize, BatchSize + 1, MaxIDs}
ChannelSizes == {0, 1, BatchSize, BatchSize + 1, MaxIDs}

\* !filter || filter(message): the filters tried are none and one that takes
\* every second message.
Passes(filter, id) == filter = "none" \/ id % 2 = 1

\* The ids of `page` that pass the filter, in order.
Filtered(filter, page) ==
    LET passes(id) == Passes(filter, id)
    IN  SelectSeq(page, passes)

\* getMessages(channelID, 100, _before): the next page, newest first; the
\* channel's messages have the ids 1..channel.
Page(p) == [i \in 1..Min(BatchSize, p.channel - p.fetched) |-> p.fetched + i]

\* resolve(deleted) and reject(err): the first of them settles the promise.
resolve(p) ==
    IF p.promise = "pending" THEN [p EXCEPT !.promise = "resolved", !.result = p.deleted] ELSE p
reject(p) ==
    IF p.promise = "pending" THEN [p EXCEPT !.promise = "rejected"] ELSE p

\* The then-callback of del(): the messages that count against the limit are
\* taken, and the next page is asked for unless the limit is used up or the
\* page was short.
delThen(p, page) ==
    IF p.limit = 0 THEN [p EXCEPT !.done = TRUE, !.fetching = FALSE]
    ELSE LET n == IF p.limit < 0 THEN Len(page) ELSE Min(p.limit, Len(page))
             p1 == [p EXCEPT !.toDelete = @ \o Filtered(p.filter, SubSeq(page, 1, n)),
                             !.limit = @ - n,
                             !.fetched = @ + Len(page)]
         IN  IF p1.limit = 0 \/ Len(page) < BatchSize
             THEN [p1 EXCEPT !.done = TRUE, !.fetching = FALSE]
             ELSE p1

\* .catch(reject).then(...) of del() after a failed fetch: the promise is
\* rejected and the then-callback runs with no messages; it stops at
\* `for(var message of messages)` unless limit is 0.
delCatch(p) ==
    IF p.limit = 0
    THEN [reject(p) EXCEPT !.done = TRUE, !.fetching = FALSE]
    ELSE [reject(p) EXCEPT !.fetching = FALSE]

\* The then-callback of checkToDelete after deleteMessages settled (ok or
\* not; a failure has gone through .catch(reject) first).
deleteThen(p, ok) ==
    LET p1 == IF ok THEN p ELSE reject(p)
    IN  /\ purge' = IF p1.done THEN resolve(p1) ELSE p1
        /\ pollTimer' = IF p1.done THEN NoTimer
                        ELSE [armed |-> TRUE, due |-> now + PurgeDelay]

\* (done && toDelete) || (toDelete.length >= 100 && toDelete.splice(0, 100))
\* is an array (true) or false.
HasBatch(p) == p.done \/ Len(p.toDelete) >= BatchSize
NextBatch(p) == IF p.done THEN p.toDelete ELSE FirstBatch(p.toDelete)

\* checkToDelete()
checkToDelete(p) ==
    IF HasBatch(p)
    THEN LET p1 == [p EXCEPT !.deleted = @ + Len(NextBatch(p)),
                             !.toDelete = IF p.done THEN @ ELSE RestAfterSplice(@)]
         IN  /\ input' = NextBatch(p)
             /\ deleteMessages(NextBatch(p), TRUE)
             /\ IF Len(NextBatch(p)) = 0
                THEN deleteThen(p1, TRUE)
                ELSE purge' = p1 /\ pollTimer' = NoTimer
             /\ UNCHANGED deleteTimer
    ELSE /\ purge' = p
         /\ pollTimer' = [armed |-> TRUE, due |-> now + PollDelay]
         /\ UNCHANGED deleteVars

\* The caller calls client.purgeChannel(channelID, limit, filter): the first
\* page is asked for and checkToDelete runs a first time.
PurgeChannel ==
    /\ purge.promise = "none"
    /\ promise = "none"
    /\ \E limit \in PurgeLimits, filter \in {"none", "odd"}, channel \in ChannelSizes :
          checkToDelete([NoPurge EXCEPT !.limit = limit, !.filter = filter,
                                        !.channel = channel, !.fetching = TRUE,
                                        !.promise = "pending"])
    /\ UNCHANGED <<now, outsidePurge>>

\* The page del() asked for arrives.
FetchSucceeds ==
    /\ purge.fetching
    /\ purge' = delThen(purge, Page(purge))
    /\ UNCHANGED <<now, pollTimer, deleteVars, outsidePurge>>

\* The request of del() fails.
FetchFails ==
    /\ purge.fetching
    /\ purge' = delCatch(purge)
    /\ UNCHANGED <<now, pollTimer, deleteVars, outsidePurge>>

\* The timer of checkToDelete fires.
PollTimerFires ==
    /\ pollTimer.armed
    /\ now >= pollTimer.due
    /\ checkToDelete(purge)
    /\ UNCHANGED <<now, outsidePurge>>

\* A delete request of the purge settles; when it is the one deleteMessages
\* answers for, the then-callback of checkToDelete runs.
PurgeDeleteSettles(ok) ==
    /\ RequestSettles(ok)
    /\ IF request.top
       THEN deleteThen(purge, ok)
       ELSE UNCHANGED <<purge, pollTimer>>
    /\ UNCHANGED outsidePurge

PurgeDeleteSucceeds ==
    /\ request.active
    /\ purge.promise # "none"
    /\ PurgeDeleteSettles(TRUE)

PurgeDeleteFails ==
    /\ request.active
    /\ purge.promise # "none"
    /\ PurgeDeleteSettles(FALSE)

NextPurge ==
    \/ TickDelete
    \/ PurgeChannel
    \/ FetchSucceeds
    \/ FetchFails
    \/ PollTimerFires
    \/ PurgeDeleteSucceeds
    \/ PurgeDeleteFails
    \/ DeleteTimerFires

SpecPurge == Init /\ [][NextPurge]_vars

(* ----------------------------- getMessages ---------------------------- *)
\* The `limit` arguments tried (0: none given) and how many messages the
\* channel holds on the asked side of `before` / `after`.
GetLimits == {0, 1, BatchSize, BatchSize + 1, 2 * BatchSize, MaxIDs}
GetChannelSizes == {0, 1, BatchSize - 1, BatchSize, BatchSize + 1, 2 * BatchSize, MaxIDs, MaxIDs + BatchSize}

\* Mutant of ShortPage: a short page does not end the paging.
NeverShort(messages) == FALSE

\* if(messages.length < 100)
ShortPage(messages) == Len(messages) < BatchSize

\* The reverse of a sequence.
Reverse(seq) == [i \in 1..Len(seq) |-> seq[Len(seq) + 1 - i]]

\* What the server returns for a request of `size` messages when `sent` have
\* been returned before.  Message i is the i-th from `before` or `after`; a page
\* holds the nearest messages not yet returned, newest first: nearest first
\* when paging back from `before`, farthest first when paging on from `after`.
ServerPage(g, size) ==
    LET page == [i \in 1..Min(size, g.channel - g.sent) |-> g.sent + i]
    IN  IF g.after THEN Reverse(page) ELSE page

\* messages.slice(messages.length - limit, messages.length) with `after`,
\* messages.slice(0, limit) without.
Sliced(g, messages) ==
    IF g.after THEN SubSeq(messages, Len(messages) - g.limit + 1, Len(messages))
    ELSE SubSeq(messages, 1, g.limit)

\* messages.concat(logs) with `after`, logs.concat(messages) without.
Concat(g, messages) == IF g.after THEN messages \o g.logs ELSE g.logs \o messages

\* getMessages(channelID, limit, before, after): the paging branch for
\* limit > 100, one request of `limit || 50` otherwise.
getMessages(limit, after, channel) ==
    [limit |-> limit, wanted |-> limit, after |-> after, channel |-> channel,
     paged |-> limit > BatchSize, sent |-> 0, logs |-> <<>>, requests |-> 1,
     size |-> IF limit > BatchSize THEN BatchSize ELSE IF limit = 0 THEN DefaultLimit ELSE limit,
     inFlight |-> TRUE, promise |-> "pending", result |-> <<>>]

\* The then-callback of get() with the page the server sent.
getThen(g, messages) ==
    LET g0 == [g EXCEPT !.inFlight = FALSE, !.sent = @ + Len(messages)]
    IN  IF g.limit <= Len(messages)
        THEN [g0 EXCEPT !.promise = "resolved", !.result = Concat(g, Sliced(g, messages))]
        ELSE LET g1 == [g0 EXCEPT !.limit = @ - Len(messages), !.logs = Concat(g, messages)]
             IN  IF ShortPage(messages)
                 THEN [g1 EXCEPT !.promise = "resolved", !.result = g1.logs]
                 ELSE [g1 EXCEPT !.inFlight = TRUE, !.requests = @ + 1]

\* The caller calls client.getMessages(channelID, limit, before, after).
GetMessages ==
    /\ paging.promise = "none"
    /\ \E limit \in GetLimits, after \in BOOLEAN, channel \in GetChannelSizes :
          paging' = getMessages(limit, after, channel)
    /\ UNCHANGED outsideGet

\* The request in flight is answered with a page.
PageArrives ==
    /\ paging.inFlight
    /\ paging' = IF paging.paged
                 THEN getThen(paging, ServerPage(paging, paging.size))
                 ELSE [paging EXCEPT !.inFlight = FALSE, !.promise = "resolved",
                                    !.sent = Len(ServerPage(paging, paging.size)),
                                    !.result = ServerPage(paging, paging.size)]
    /\ UNCHANGED outsideGet

\* The request in flight fails: the promise is rejected, and the then-callback
\* of the paging branch, run with no messages, stops at messages.length.
PageFails ==
    /\ paging.inFlight
    /\ paging' = [paging EXCEPT !.inFlight = FALSE, !.promise = "rejected"]
    /\ UNCHANGED outsideGet

NextGet ==
    \/ GetMessages
    \/ PageArrives
    \/ PageFails

SpecGet == Init /\ [][NextGet]_vars

(* ------------------------- joinVoiceChannel --------------------------- *)
\* Constants.Permissions.voiceConnect: one bit of the permission number.
voiceConnect == 2 ^ 20

\* The values of permissionsOf(user).allow tried: no bit, another bit, the
\* voiceConnect bit, both.
AllowValues == {0, 1, voiceConnect, voiceConnect + 1}

\* a & b on non-negative integers
RECURSIVE BitAnd(_, _)
BitAnd(a, b) ==
    IF a = 0 \/ b = 0 THEN 0
    ELSE (a % 2) * (b % 2) + 2 * BitAnd(a \div 2, b \div 2)

\* !x on a number, as `&` then reads it: true (1) for 0, false (0) otherwise.
Not(x) == IF x = 0 THEN 1 ELSE 0

\* channel.guild && !channel.permissionsOf(this.user.id).allow & Constants.Permissions.voiceConnect
\* `!` binds tighter than `&`: the test is (!allow) & voiceConnect.
PermissionDenied(guild, allow) == guild /\ BitAnd(Not(allow), voiceConnect) # 0

\* Mutant of AfterReady: readyHandler leaves the 'disconnect' listener registered.
AfterReadyKeepsOther(ls) == ls \ {"ready"}

\* The call's listeners after 'ready': once() took readyHandler off, and
\* readyHandler removed disconnectHandler.
AfterReady(ls) == (ls \ {"ready"}) \ {"disconnect"}

\* The call's listeners after 'disconnect': once() took disconnectHandler off,
\* and disconnectHandler removed readyHandler.
AfterDisconnect(ls) == (ls \ {"disconnect"}) \ {"ready"}

\* One joinVoiceChannel call: its arguments as the code sees them (the channel
\* was found, it is a guild channel, the permissions allowed there,
\* waitForReady), whether voiceConnections.join was called and threw, the
\* promise it returned, the listeners it has on the connection, and history:
\* connection.ready at the call, how many times resolve or reject was called,
\* and the first event of the connection after the call.
JoinCall(found, guild, allow, wait) ==
    [found |-> found, guild |-> guild, allow |-> allow, wait |-> wait,
     joined |-> FALSE, threw |-> FALSE, promise |-> "pending", error |-> "none",
     listeners |-> {}, readyAtCall |-> connectionReady, settles |-> 0, first |-> "none"]

Rejected(call, error) ==
    [call EXCEPT !.promise = "rejected", !.error = error, !.settles = @ + 1]

Resolved(call) == [call EXCEPT !.promise = "resolved", !.settles = @ + 1]

\* joinVoiceChannel(channelID, waitForReady); `throws` says voiceConnections.join threw.
joinVoiceChannel(call, throws) ==
    IF ~call.found
    THEN Rejected(call, "Channel not found")
    ELSE IF PermissionDenied(call.guild, call.allow)
    THEN Rejected(call, "Insufficient permission to connect to voice channel")
    ELSE IF throws
    THEN Rejected([call EXCEPT !.joined = TRUE, !.threw = TRUE], "join threw")
    ELSE IF call.wait = "false" \/ connectionReady
    THEN Resolved([call EXCEPT !.joined = TRUE])
    ELSE [call EXCEPT !.joined = TRUE, !.listeners = {"ready", "disconnect"}]

\* The caller calls client.joinVoiceChannel.
JoinVoiceChannel ==
    /\ Len(joins) < MaxJoins
    /\ \E found \in BOOLEAN, guild \in BOOLEAN, allow \in AllowValues,
          wait \in {"undefined", "false"}, throws \in BOOLEAN :
          /\ (~found \/ ~guild) => allow = 0
          /\ joins' = Append(joins, joinVoiceChannel(JoinCall(found, guild, allow, wait), throws))
    /\ UNCHANGED <<connectionReady, outsideVoice>>

\* The listeners of every call run on an event of the connection.
Heard(event, call) ==
    LET seen == [call EXCEPT !.first = IF @ = "none" THEN event ELSE @]
    IN  IF event \notin call.listeners THEN seen
        ELSE IF event = "ready"
        THEN Resolved([seen EXCEPT !.listeners = AfterReady(@)])
        ELSE Rejected([seen EXCEPT !.listeners = AfterDisconnect(@)], "disconnected")

\* The voice connection becomes ready and emits 'ready'.
VoiceReady ==
    /\ ~connectionReady
    /\ connectionReady' = TRUE
    /\ joins' = [k \in 1..Len(joins) |-> Heard("ready", joins[k])]
    /\ UNCHANGED outsideVoice

\* The voice connection is lost, or its handshake fails: it emits 'disconnect'.
VoiceDisconnect ==
    /\ Len(joins) > 0
    /\ connectionReady' = FALSE
    /\ joins' = [k \in 1..Len(joins) |-> Heard("disconnect", joins[k])]
    /\ UNCHANGED outsideVoice

NextVoice ==
    \/ JoinVoiceChannel
    \/ VoiceReady
    \/ VoiceDisconnect

SpecVoice == Init /\ [][NextVoice]_vars

(* ----------------------- REST convenience methods -------------------- *)
\* One call of this.requestHandler.request(verb, Constants.Endpoints.X, auth,
\* ...) in the source: the method it stands in, its line, and its third
\* argument as written ("undefined" when the call has none).
Site(method, line, verb, endpoint, auth) ==
    [method |-> method, line |-> line, verb |-> verb, endpoint |-> endpoint, auth |-> auth]

\* Every call of requestHandler.request in the Client.
CallSites ==
    {Site("getGateway", 228, "GET", "GATEWAY", "undefined"),
     Site("createChannel", 385, "POST", "GUILD_CHANNELS", "true"),
     Site("editChannel", 409, "PATCH", "CHANNEL", "true"),
     Site("editChannelPosition", 448, "PATCH", "GUILD_CHANNELS", "true"),
     Site("deleteChannel", 460, "DELETE", "CHANNEL", "true"),
     Site("sendChannelTyping", 469, "POST", "CHANNEL_TYPING", "true"),
     Site("editChannelPermission", 482, "PUT", "CHANNEL_PERMISSION", "true"),
     Site("deleteChannelPermission", 496, "DELETE", "CHANNEL_PERMISSION", "true"),
     Site("getChannelInvites", 505, "GET", "CHANNEL_INVITES", "true"),
     Site("createInvite", 519, "POST", "CHANNEL_INVITES", "true"),
     Site("createGuildEmoji", 535, "POST", "GUILD_EMOJIS", "true"),
     Site("editGuildEmoji", 547, "PATCH", "GUILD_EMOJI", "true"),
     Site("deleteGuildEmoji", 556, "DELETE", "GUILD_EMOJI", "true"),
     Site("createRole", 564, "POST", "GUILD_ROLES", "true"),
     Site("editRole", 582, "PATCH", "GUILD_ROLE", "true"),
     Site("editRolePosition", 618, "PATCH", "GUILD_ROLES", "true"),
     Site("deleteRole", 631, "DELETE", "GUILD_ROLE", "true"),
     Site("getPruneCount", 641, "GET", "GUILD_PRUNE", "true"),
     Site("pruneMembers", 653, "POST", "GUILD_PRUNE", "true"),
     Site("getVoiceRegions", 664, "GET", "GUILD_VOICE_REGIONS", "true"),
     Site("getVoiceRegions", 664, "GET", "VOICE_REGIONS", "true"),
     Site("getInvite", 673, "GET", "INVITE", "true"),
     Site("getInvite", 675, "POST", "CHANNEL_INVITES", "true"),
     Site("acceptInvite", 689, "POST", "INVITE", "true"),
     Site("deleteInvite", 698, "DELETE", "INVITE", "true"),
     Site("getSelf", 706, "GET", "ME", "true"),
     Site("editSelf", 720, "PATCH", "ME", "true"),
     Site("getDMChannel", 735, "POST", "ME_CHANNELS", "true"),
     Site("createGroupChannel", 747, "POST", "ME_CHANNELS", "true"),
     Site("getMessage", 760, "GET", "CHANNEL_MESSAGE", "true"),
     Site("getMessages", 777, "GET", "CHANNEL_MESSAGES", "true"),
     Site("getMessages", 797, "GET", "CHANNEL_MESSAGES", "true"),
     Site("getPins", 818, "GET", "CHANNEL_PINS", "true"),
     Site("createMessage", 852, "POST", "CHANNEL_MESSAGES", "true"),
     Site("editMessage", 873, "PATCH", "CHANNEL_MESSAGE", "true"),
     Site("pinMessage", 885, "PUT", "CHANNEL_PIN", "true"),
     Site("unpinMessage", 895, "DELETE", "CHANNEL_PIN", "true"),
     Site("deleteMessage", 905, "DELETE", "CHANNEL_MESSAGE", "true"),
     Site("deleteMessages", 922, "POST", "CHANNEL_BULK_DELETE", "true"),
     Site("deleteMessages", 930, "POST", "CHANNEL_BULK_DELETE", "true"),
     Site("getGuildEmbed", 1005, "GET", "GUILD_EMBED", "true"),
     Site("getGuildIntegrations", 1015, "GET", "GUILD_INTEGRATIONS", "true"),
     Site("editGuildIntegration", 1029, "PATCH", "GUILD_INTEGRATION", "true"),
     Site("deleteGuildIntegration", 1043, "DELETE", "GUILD_INTEGRATION", "true"),
     Site("syncGuildIntegration", 1053, "POST", "GUILD_INTEGRATION_SYNC", "true"),
     Site("getGuildInvites", 1062, "GET", "GUILD_INVITES", "true"),
     Site("banGuildMember", 1073, "PUT", "GUILD_BAN", "true"),
     Site("unbanGuildMember", 1085, "DELETE", "GUILD_BAN", "true"),
     Site("createGuild", 1097, "POST", "GUILDS", "true"),
     Site("editGuild", 1124, "PATCH", "GUILD", "true"),
     Site("getGuildBans", 1142, "GET", "GUILD_BANS", "true"),
     Site("editGuildMember", 1158, "PATCH", "GUILD_MEMBER", "true"),
     Site("editNickname", 1174, "PATCH", "GUILD_ME_NICK", "true"),
     Site("deleteGuildMember", 1186, "DELETE", "GUILD_MEMBER", "true"),
     Site("deleteGuild", 1195, "DELETE", "GUILD", "true"),
     Site("leaveGuild", 1204, "DELETE", "ME_GUILD", "true"),
     Site("getOAuthApplication", 1213, "GET", "OAUTH2_APPLICATION", "true"),
     Site("addRelationship", 1223, "PUT", "ME_RELATIONSHIP", "true"),
     Site("removeRelationship", 1234, "DELETE", "ME_RELATIONSHIP", "true"),
     Site("addGroupRecipient", 1244, "PUT", "GROUP_RECIPIENT", "true"),
     Site("removeGroupRecipient", 1254, "DELETE", "GROUP_RECIPIENT", "true"),
     Site("getRESTChannel", 1263, "GET", "CHANNEL", "true"),
     Site("getRESTGuild", 1282, "GET", "GUILD", "true"),
     Site("getGuildChannels", 1295, "GET", "GUILD_CHANNELS", "true"),
     Site("getGuildEmojis", 1304, "GET", "GUILD_EMOJIS", "true"),
     Site("getGuildEmoji", 1314, "GET", "GUILD_EMOJI", "true"),
     Site("getGuildMembers", 1329, "GET", "GUILD_MEMBERS", "true"),
     Site("getGuildMember", 1346, "GET", "GUILD_MEMBER", "undefined"),
     Site("getGuildRoles", 1359, "GET", "GUILD_ROLES", "true"),
     Site("getRESTUser", 1368, "GET", "USER", "true")}

\* The methods that look the guild up in the cache first and reject with
\* "Guild not found" without a request when it is missing.
NeedsGuild == {"getGuildChannels", "getGuildMembers", "getGuildMember", "getGuildRoles"}

\* request(method, route, requiresAuth, ...): the credential is attached when
\* the flag is truthy; a missing argument is undefined.
Attaches(auth) == auth = "true"

\* The request as the request handler sends it.
Request(site) ==
    [method |-> site.method, endpoint |-> site.endpoint, auth |-> site.auth,
     credential |-> Attaches(site.auth)]

\* The caller calls a method and execution reaches one of its request calls;
\* cached says whether the guild of the call is in client.guilds.
RestCall(site, cached) ==
    /\ Len(sent) < MaxRequests
    /\ sent' = IF site.method \in NeedsGuild /\ ~cached
               THEN sent
               ELSE Append(sent, Request(site))
    /\ UNCHANGED outsideRest

NextRest == \E site \in CallSites, cached \in BOOLEAN : RestCall(site, cached)

SpecRest == Init /\ [][NextRest]_vars

(* ------------------------------ Mafia bot ----------------------------- *)
\* The three versions of the bot: v1.0.1 and v1.0.2 (src/mafiaBot/main.js)
\* and v1.0.4 (src/mafiaBot-master/updates/RMBv1.js).
Versions == {"1.0.1", "1.0.2", "1.0.4"}

\* presence.game of the member: none, or a game by its name.
Games == {"none", "League of Legends", "Overwatch"}

\* The presenceUpdate handler (the same in the three versions): the member's
\* new game is `game`; addRole and removeRole take effect.
onPresenceUpdate(b, game) ==
    IF ~b.playRole THEN [b EXCEPT !.game = game]
    ELSE IF game # "none" /\ game = "League of Legends"
    THEN [b EXCEPT !.game = game, !.holds = TRUE]
    ELSE IF game = "none" /\ b.holds
    THEN [b EXCEPT !.game = game, !.holds = FALSE]
    ELSE [b EXCEPT !.game = game]

\* A message's content is a sequence of pieces: "-", " ", or a word.
\* const prefix = "--"
prefix == <<"-", "-">>

\* The contents tried.
Contents ==
    {<<>>, <<"ping">>, <<"x", "x", "ping">>, <<"-", "ping">>, <<"-", "-">>,
     <<" ", "-", "-", "ping">>, <<"-", "-", " ", "ping">>, <<"-", "-", "nothing">>,
     <<"-", "-", "ping">>, <<"-", "-", "commands">>, <<"-", "-", "about">>,
     <<"-", "-", "info">>, <<"-", "-", "add">>, <<"-", "-", "add", " ", "1">>,
     <<"-", "-", "rng">>, <<"-", "-", "rateme">>, <<"-", "-", "coinflip">>,
     <<"-", "-", "say", " ", "ping">>, <<"-", "-", "asl">>, <<"-", "-", "eval">>,
     <<"-", "-", "SL">>, <<"-", "-", "prune">>, <<"-", "-", "rlykim">>,
     <<"-", "-", "genplayers", " ", "8">>, <<"-", "-", "vote">>,
     <<"-", "-", "vote", " ", "1">>, <<"-", "-", "vote", " ", "3">>,
     <<"-", "-", "grabrole">>, <<"-", "-", "grabrole", " ", "id">>,
     <<"-", "-", "canikick">>, <<"-", "-", "kick">>, <<"-", "-", "kick", " ", "@user">>,
     <<"-", "-", "kick", "me", " ", "@user">>, <<"-", "-", "gen">>,
     <<"-", "-", "gen", " ", "5">>, <<"-", "-", "gen", " ", "6">>,
     <<"-", "-", "gen", " ", "14">>}

\* Mutant of startsWith: every content passes for one with the prefix.
startsWithAnything(content, p) == TRUE

\* content.startsWith(p)
startsWith(content, p) ==
    Len(content) >= Len(p) /\ SubSeq(content, 1, Len(p)) = p

\* content.split(" "): its element k, <<>> standing for undefined as well as
\* for the empty string.
RECURSIVE split(_, _)
split(content, k) ==
    LET spaces == {i \in 1..Len(content) : content[i] = " "}
        first == CHOOSE i \in spaces : \A j \in spaces : i <= j
    IN  IF spaces = {} THEN (IF k = 0 THEN content ELSE <<>>)
        ELSE IF k = 0 THEN SubSeq(content, 1, first - 1)
        ELSE split(SubSeq(content, first + 1, Len(content)), k - 1)

\* word.slice(n)
slice(word, n) == SubSeq(word, n + 1, Len(word))

\* One `if` of the handler: the command it is for, whether it tests the
\* content with startsWith instead of the command with ===, and whether it is
\* the else of the `if` before it.
Branch(name, starts, joined) == [name |-> name, starts |-> starts, joined |-> joined]

\* The `if`s of the message handler of each version, in order.
Branches(v) ==
    IF v = "1.0.1"
    THEN <<Branch("commands", FALSE, FALSE), Branch("about", FALSE, FALSE),
           Branch("add", FALSE, FALSE), Branch("rng", FALSE, FALSE),
           Branch("rateme", FALSE, FALSE), Branch("coinflip", FALSE, FALSE),
           Branch("say", FALSE, FALSE), Branch("ping", FALSE, FALSE),
           Branch("eval", FALSE, FALSE), Branch("SL", FALSE, FALSE),
           Branch("prune", FALSE, FALSE), Branch("rlykim", FALSE, FALSE)>>
    ELSE IF v = "1.0.2"
    THEN <<Branch("commands", FALSE, FALSE), Branch("ping", FALSE, TRUE),
           Branch("info", FALSE, TRUE), Branch("add", FALSE, TRUE),
           Branch("rateme", FALSE, TRUE), Branch("say", FALSE, FALSE),
           Branch("asl", FALSE, TRUE), Branch("rng", FALSE, TRUE),
           Branch("coinflip", FALSE, TRUE), Branch("genplayers", FALSE, TRUE),
           Branch("vote", FALSE, TRUE), Branch("rlykim", FALSE, TRUE),
           Branch("SL", FALSE, TRUE)>>
    ELSE <<Branch("grabrole", FALSE, FALSE), Branch("canikick", FALSE, TRUE),
           Branch("kick", TRUE, TRUE), Branch("commands", FALSE, TRUE),
           Branch("ping", FALSE, TRUE), Branch("info", FALSE, TRUE),
           Branch("add", FALSE, TRUE), Branch("rateme", FALSE, TRUE),
           Branch("say", FALSE, TRUE), Branch("asl", FALSE, TRUE),
           Branch("rng", FALSE, TRUE), Branch("coinflip", FALSE, TRUE),
           Branch("gen", FALSE, TRUE), Branch("vote", FALSE, TRUE),
           Branch("rlykim", FALSE, TRUE), Branch("SL", FALSE, TRUE)>>

\* The body of a branch: how many sendMessage / reply calls it makes, and
\* whether it ends the handler (a return, or an exception before any call).
\* arg is args[0], owner says the author is the bot's owner.
Body(name, arg, owner) ==
    LET calls(n) == [sent |-> n, stops |-> FALSE]
        stop == [sent |-> 0, stops |-> TRUE]
    IN  CASE name = "add" -> IF arg = <<>> THEN stop ELSE calls(1)
          [] name = "eval" -> IF owner THEN calls(0) ELSE stop
          [] name = "SL" -> IF owner THEN calls(1) ELSE calls(0)
          [] name = "genplayers" -> IF owner THEN stop ELSE calls(0)
          [] name = "vote" -> IF arg \in {<<"1">>, <<"2">>} THEN calls(1) ELSE calls(0)
          [] name = "grabrole" -> IF ~owner THEN calls(0)
                                  ELSE IF arg = <<>> THEN stop ELSE calls(1)
          [] name = "kick" -> IF arg = <<"@user">> THEN calls(1) ELSE stop
          [] name = "gen" -> IF ~owner THEN calls(0)
                             ELSE IF arg = <<"6">> THEN calls(3) ELSE calls(2)
          [] OTHER -> calls(1)

\* The `if`s from number k on; out holds the branches run and the calls made
\* so far, and whether an `if` of the current else-chain has been taken.
RECURSIVE runBranches(_, _, _, _, _)
runBranches(bs, k, content, owner, out) ==
    IF k > Len(bs) \/ out.stopped THEN out
    ELSE LET b == bs[k]
             skipped == b.joined /\ out.taken
             hit == /\ ~skipped
                    /\ IF b.starts THEN startsWith(content, prefix \o <<b.name>>)
                       ELSE slice(split(content, 0), Len(prefix)) = <<b.name>>
             body == Body(b.name, split(content, 1), owner)
         IN  runBranches(bs, k + 1, content, owner,
                 IF hit
                 THEN [ran |-> Append(out.ran, b.name), sent |-> out.sent + body.sent,
                       taken |-> TRUE, stopped |-> body.stops]
                 ELSE [out EXCEPT !.taken = b.joined /\ @])

\* The 'message' handler of version v for a message by `author` ("bot", the
\* bot's "owner", or another "user").
onMessage(v, content, author) ==
    LET nothing == [ran |-> <<>>, sent |-> 0, taken |-> FALSE, stopped |-> FALSE]
        out == IF author = "bot" THEN nothing
               ELSE IF ~startsWith(content, prefix) THEN nothing
               ELSE runBranches(Branches(v), 1, content, author = "owner", nothing)
    IN  [content |-> content, author |-> author, ran |-> out.ran, sent |-> out.sent]

\* The member's presence changes.
PresenceUpdate ==
    /\ \E game \in Games : bot' = onPresenceUpdate(bot, game)
    /\ UNCHANGED outsideBot

\* A message arrives.
Message ==
    /\ \E content \in Contents, author \in {"bot", "owner", "user"} :
          bot' = [bot EXCEPT !.message = onMessage(bot.version, content, author)]
    /\ UNCHANGED outsideBot

InitBot ==
    /\ Constructor(AllShards)
    /\ NoDelete
    /\ NoVoice
    /\ NoPurging
    /\ NoPaging
    /\ NoRest
    /\ \E v \in Versions, role \in BOOLEAN : bot = StartedBot(v, role)

NextBot ==
    \/ PresenceUpdate
    \/ Message

SpecBot == InitBot /\ [][NextBot]_vars

(* ------------------------- connect queue claims ----------------------- *)
Calls == {turn.calls[i] : i \in 1..Len(turn.calls)}
Admissions == {c \in Calls : c.kind # "queued"}
Connecting == {s \in shards : connecting(phase, s)}

\* C1: at most one shard is connecting at any instant, and the queue never
\* calls connect() on a shard while a shard is connecting.
C1_OneConnecting ==
    /\ Cardinality(Connecting) <= 1
    /\ \A c \in Admissions : ~c.busy

\* C1 witness: a request was held back because a shard was connecting, while
\* that shard is the only one connecting.
C1_Witness ==
    /\ \E c \in Calls : c.kind = "queued" /\ c.busy /\ c.shard \notin Connecting
    /\ Cardinality(Connecting) = 1

\* C2: two consecutive connect() calls of the queue are never less than
\* 5250 ms apart.
C2_MinSpacing == \A c \in Admissions : ~c.tooSoon

\* C3: shards are admitted in the order of their requests: no shard gets its
\* connect() while another shard that asked earlier still waits in the queue.
C3_FIFO == \A c \in Admissions : ~c.overtook

\* C4: queueConnect connects the shard at once exactly when the admission test
\* holds and connectQueue is empty; otherwise it appends the shard.
C4_BypassOnlyWhenEmpty ==
    \A c \in Calls :
        c.kind \in {"direct", "queued"} =>
            ((c.kind = "direct") <=> (c.pred /\ c.qEmpty))

\* C5: right after the queue calls connect() at time t, lastReadyPacket is t.
C5_RecordsAdmissionTime == \A c \in Admissions : c.recorded

\* C6: the timer never connects a shard whose request Client.disconnect()
\* dropped from the queue, unless the shard has been queued again since.
C6_DisconnectCancels == \A c \in Calls : ~c.dropped

\* C6 witness: the timer fires and connects a shard queued after a
\* disconnect() that dropped another shard's request, which stays dropped.
C6_Witness ==
    /\ turn.timer
    /\ cancelled # {}
    /\ \E c \in Calls : c.kind = "timer" /\ c.shard \notin cancelled

(* ------------------------- deleteMessages claims ---------------------- *)
Batch(k) == batches[k]
Failed == {k \in 1..Len(batches) : Batch(k).result = "failed"}
Sizes == [k \in 1..Len(batches) |-> Len(Batch(k).ids)]
\* The call has nothing more to do, and no request of it failed.
Completed ==
    /\ promise # "none"
    /\ ~request.active
    /\ ~deleteTimer.armed
    /\ Failed = {}

\* The k-th run of at most 100 ids of the input.
Chunk(k) == SubSeq(input, (k - 1) * BatchSize + 1, Min(k * BatchSize, Len(input)))
NumChunks == (Len(input) + BatchSize - 1) \div BatchSize

\* C7: the requests carry the input in order, 100 ids at a time, each id in
\* one request, each request sent after the one before succeeded; a call that
\* runs to its end has sent every chunk (250 ids: 100, 100 and 50).
C7_Batches ==
    /\ \A k \in 1..Len(batches) :
          /\ Batch(k).ids = Chunk(k)
          /\ Len(Batch(k).ids) <= BatchSize
          /\ k > 1 => Batch(k - 1).result = "ok"
    /\ Len(batches) <= NumChunks
    /\ Completed => Len(batches) = NumChunks
    /\ (Completed /\ Len(input) = 250) => Sizes = <<100, 100, 50>>

\* C7 witness: a call with more than 200 ids has run to its end in three requests.
C7_Witness == Completed /\ Len(input) = MaxIDs /\ Len(batches) = 3

\* C8: two consecutive requests of one call are sent at least 1000 ms apart.
C8_BatchSpacing ==
    \A k \in 2..Len(batches) : Batch(k).at - Batch(k - 1).at >= BatchDelay

\* C8 witness: a third request went out, exactly 1000 ms after the second.
C8_Witness ==
    /\ Len(batches) = 3
    /\ Batch(3).at - Batch(2).at = BatchDelay

\* C9: once a request of the call has failed, none is sent after it and none
\* is scheduled.
C9_StopsAfterFailure ==
    \A k \in Failed : k = Len(batches) /\ ~deleteTimer.armed /\ ~request.active

\* C9 witness: the second request of a call with 250 ids failed, the delay of
\* the third has passed, and the last 50 ids are still in the array.
C9_Witness ==
    /\ Len(input) = MaxIDs
    /\ Failed = {2}
    /\ now >= Batch(2).at + BatchDelay
    /\ Len(messageIDs) = MaxIDs - 2 * BatchSize

\* C10: when a request of the call has failed, the caller's promise is
\* rejected; the caller never sees success for a call of which a request failed.
C10_FailureSurfaces == Failed # {} => promise = "rejected"

(* ------------------------- gateway lookup claims ---------------------- *)
\* A call that issued a request found no URL, and one that issued none
\* resolved with the URL the client has.
CallsUseCache ==
    /\ turn.lookup.requested => gatewayURL = NoURL
    /\ (turn.lookup.call # "none" /\ ~turn.lookup.requested /\ turn.lookup.cached) =>
           (turn.lookup.settled = "resolved" /\ turn.lookup.value = gatewayURL /\ gatewayURL # NoURL)

ShardRange == options.firstShardID..options.lastShardID
ConnectResolved == turn.lookup.call = "connect" /\ turn.lookup.settled = "resolved"
ConnectRejected == turn.lookup.call = "connect" /\ turn.lookup.settled = "rejected"
Queued == {connectQueue[i] : i \in 1..Len(connectQueue)}
\* The then-callback called connect() on shard i, or shard i waits in the queue.
ConnectedOrQueued(i) ==
    \/ \E c \in Calls : c.shard = i /\ c.kind = "direct"
    \/ i \in Queued
\* What C17 says apart from the range of the ids.
ConnectOutcome ==
    /\ ConnectResolved =>
          /\ shards = ShardRange
          /\ \A i \in ShardRange : ConnectedOrQueued(i)
    /\ ConnectRejected => (turn.lookup.created = {} /\ turn.calls = <<>>)
IDsWithinMaxShards == \A i \in shards : 0 <= i /\ i < options.maxShards
ValidOptions == 0 <= options.firstShardID /\ options.lastShardID < options.maxShards

\* C17: when connect() resolves, client.shards holds exactly the ids
\* firstShardID..lastShardID, all of them within 0 <= id < maxShards, each
\* connected or queued; when the lookup fails connect() rejects and creates and
\* queues nothing.
C17_ShardsOfRange ==
    /\ ConnectOutcome
    /\ ConnectResolved => IDsWithinMaxShards

\* C17, amended: as C17, but the ids are within 0 <= id < maxShards only when
\* the options are: 0 <= firstShardID and lastShardID < maxShards.
C17_ShardsOfGivenRange ==
    /\ ConnectOutcome
    /\ (ConnectResolved /\ ValidOptions) => IDsWithinMaxShards

\* C17 witness: a connect() that waited for the lookup resolved with two
\* shards, one connected at once and one queued, under options in range.
C17_Witness ==
    /\ ConnectResolved /\ ~turn.lookup.cached
    /\ ValidOptions
    /\ Cardinality(turn.lookup.created) = 2
    /\ Queued # {}

(* -------------------------- purgeChannel claims ----------------------- *)
\* How many ids the first k delete requests deleted: those of the requests
\* that succeeded.
RECURSIVE DeletedBy(_)
DeletedBy(k) ==
    IF k = 0 THEN 0
    ELSE DeletedBy(k - 1) + (IF Batch(k).result = "ok" THEN Len(Batch(k).ids) ELSE 0)

\* C15: when the promise of purgeChannel has resolved with N, exactly N ids
\* have been deleted by delete requests that succeeded, and no delete request
\* of the purge is in flight or still to be sent.
C15_ResolvesWithDeleted ==
    purge.promise = "resolved" =>
        /\ purge.result = DeletedBy(Len(batches))
        /\ ~request.active
        /\ ~deleteTimer.armed

(* --------------------------- getMessages claims ----------------------- *)
\* ceil(limit / 100)
PagesFor(limit) == (limit + BatchSize - 1) \div BatchSize
\* The n messages nearest to `before` / `after`, newest first.
Nearest(n, after) ==
    IF after THEN Reverse([i \in 1..n |-> i]) ELSE [i \in 1..n |-> i]

JoinCalls == {joins[k] : k \in 1..Len(joins)}
\* The call got its connection and has to wait for it to become ready.
Waits(c) == c.joined /\ ~c.threw /\ c.wait # "false" /\ ~c.readyAtCall

\* C14: a call that waits settles exactly once, resolved if 'ready' came first
\* and rejected if 'disconnect' came first, and then has no listener left, so
\* that later events do nothing to it; a call with waitForReady === false or a
\* ready connection resolves at once.
C14_SettlesOnce ==
    \A c \in JoinCalls :
        /\ Waits(c) =>
              /\ c.first = "none" =>
                    /\ c.promise = "pending" /\ c.settles = 0
                    /\ c.listeners = {"ready", "disconnect"}
              /\ c.first = "ready" =>
                    c.promise = "resolved" /\ c.settles = 1 /\ c.listeners = {}
              /\ c.first = "disconnect" =>
                    /\ c.promise = "rejected" /\ c.error = "disconnected"
                    /\ c.settles = 1 /\ c.listeners = {}
        /\ (c.joined /\ ~c.threw /\ ~Waits(c)) =>
              c.promise = "resolved" /\ c.settles = 1 /\ c.listeners = {}

\* C14 witness: a waiting call resolved on 'ready', and the connection was
\* lost afterwards while another call saw only that loss.
C14_Witness ==
    /\ ~connectionReady
    /\ \E c \in JoinCalls : Waits(c) /\ c.first = "ready" /\ c.promise = "resolved"
    /\ \E c \in JoinCalls : c.first = "disconnect" /\ c.readyAtCall

\* C19: a call for a guild channel whose permissions lack the voiceConnect bit
\* rejects with 'Insufficient permission to connect to voice channel', a call
\* for a missing channel with 'Channel not found'; neither calls
\* voiceConnections.join.
C19_PermissionChecked ==
    \A c \in JoinCalls :
        /\ ~c.found => (c.error = "Channel not found" /\ ~c.joined)
        /\ (c.found /\ c.guild /\ BitAnd(c.allow, voiceConnect) = 0) =>
              /\ c.error = "Insufficient permission to connect to voice channel"
              /\ ~c.joined

(* ------------------------- Client event claims ------------------------ *)
\* How many times the Client emitted `event` in the latest turn.
Count(event) == Cardinality({i \in 1..Len(turn.emits) : turn.emits[i].event = event})

\* C12: in a turn in which the Client emits 'ready', it emits it once, every
\* shard of client.shards is ready, and client.ready was false before the
\* turn: 'ready' is not emitted again while client.ready stays true.
C12_ReadyWhenAllReady ==
    [][Count("ready")' > 0 =>
          /\ Count("ready")' = 1
          /\ ~ready /\ ready'
          /\ \A o \in shards' : shardReady(phase', o)]_vars

\* C12 witness: the last of several shards resumed and the Client, ready now,
\* emitted 'ready' once in that turn.
C12_Witness ==
    /\ Count("ready") = 1
    /\ Count("shardResume") = 1
    /\ Cardinality(shards) > 1
    /\ ready

\* C13: in a turn that starts with the client ready and ends with no shard
\* ready, the Client emits 'disconnect' exactly once and client.ready
\* becomes false, whether the shards lost their connections or
\* Client.disconnect() closed them.
C13_DisconnectEmitted ==
    [][(ready /\ \A o \in shards' : ~shardReady(phase', o)) =>
          (~ready' /\ Count("disconnect")' = 1)]_vars

\* C18: when tryConnect arms the timer before the spacing has elapsed, the
\* delay is the remaining wait, lastReadyPacket + 5250 - now.
C18_DelayIsRemainingWait ==
    (turn.armed /\ now - lastReadyPacket < Spacing) =>
        connectTimeout.due - now = lastReadyPacket + Spacing - now

\* C20: client.startTime is non-zero only while client.ready is true, so
\* client.uptime is 0 whenever the client is not ready.
C20_UptimeZeroUnlessReady == ~ready => startTime = 0

(* ------------------------------ REST claims --------------------------- *)
\* C21: every request a REST convenience method sends to a resource route
\* (any endpoint but GATEWAY) has requiresAuth set, so the credential is
\* attached.
C21_ResourceRequestsAuthenticated ==
    \A i \in 1..Len(sent) : sent[i].endpoint # "GATEWAY" => sent[i].credential

(* ----------------------------- purge claims --------------------------- *)
\* The promise of purgeChannel has settled.
PurgeSettled == purge.promise \in {"resolved", "rejected"}

\* The step sends a delete request or a fetch of the purge, or arms one of
\* its timers.
PurgeGoesOn ==
    \/ Len(batches') > Len(batches)
    \/ purge'.fetching /\ purge'.fetched > purge.fetched
    \/ pollTimer'.armed /\ pollTimer' # pollTimer
    \/ deleteTimer'.armed /\ deleteTimer' # deleteTimer

\* C22: once the promise of purgeChannel has settled, no step sends a further
\* fetch or delete request or schedules a further timer.
C22_NothingAfterSettled == [][PurgeSettled => ~PurgeGoesOn]_vars

(* ------------------------- connect timer claims ----------------------- *)
\* C23: at most one connect timer is pending at any time, and whenever
\* connectQueue is non-empty between two turns exactly one is pending and
\* connectTimeout holds it.
C23_OneConnectTimer ==
    /\ Len(timers) <= 1
    /\ Len(connectQueue) > 0 =>
          /\ Len(timers) = 1
          /\ connectTimeout.armed
          /\ connectTimeout.due = timers[1]

\* C23 witness: the timer fired, found the queue still non-empty after its
\* admission test and armed itself again, while a second shard was queued
\* with the timer already pending.
C23_Witness ==
    /\ turn.timer
    /\ turn.armed
    /\ Len(connectQueue) = 2
    /\ Len(timers) = 1

\* C24: without Client.disconnect(), with timers that run when due and
\* connecting shards that leave the connecting phase, every shard in
\* connectQueue is eventually admitted: the queue calls its connect().
C24_QueuedEventuallyAdmitted ==
    \A s \in ShardIDs :
        (s \in Queued) ~> (\E c \in Admissions : c.shard = s)

\* C25: no shard is in connectQueue more than once.
C25_QueuedOnce ==
    \A i, j \in 1..Len(connectQueue) : i # j => connectQueue[i] # connectQueue[j]

(* -------------------------- shard event claims ------------------------ *)
\* How many times the Client emitted one of `events` with the id of shard s
\* in the turn a step takes.
EmittedFor(s, events) ==
    Cardinality({k \in 1..Len(turn'.emits) :
                    turn'.emits[k].shard = s /\ turn'.emits[k].event \in events})

\* Shard s emits 'ready' or 'resume' in the step ...
BecomesReady(s) == phase[s] = "connecting" /\ phase'[s] = "connected"

\* ... or 'disconnect'.
BecomesDisconnected(s) == phase[s] # "disconnected" /\ phase'[s] = "disconnected"

\* C26: however often Client.connect() has run, a shard's 'ready' or 'resume'
\* makes the Client emit 'shardReady' or 'shardResume' with the shard's id
\* exactly once, a shard's 'disconnect' makes it emit 'shardDisconnect' with
\* the shard's id exactly once, and a shard without an event is not named.
C26_OneEmissionPerEvent ==
    [][\A s \in DOMAIN phase :
          /\ EmittedFor(s, {"shardReady", "shardResume"}) = IF BecomesReady(s) THEN 1 ELSE 0
          /\ EmittedFor(s, {"shardDisconnect"}) = IF BecomesDisconnected(s) THEN 1 ELSE 0]_vars

\* C26 witness: a shard that a first Client.connect() connected and a later
\* one queued again loses its connection, and the Client names it once.
C26_Witness ==
    \E s \in Queued :
        /\ lookups.calls >= 2
        /\ turn.emits = <<Emitted("shardDisconnect", s)>>

(* ------------------------------ bot claims ---------------------------- *)
\* C27: in a guild that has a role named "League of Legends", the member
\* holds the role exactly when the game they play is "League of Legends".
C27_RoleFollowsGame ==
    bot.playRole => (bot.holds <=> bot.game = "League of Legends")

\* The content of the latest message begins with "--".
HasPrefix ==
    /\ Len(bot.message.content) >= 2
    /\ bot.message.content[1] = "-"
    /\ bot.message.content[2] = "-"

\* C28: the handler sends nothing for a message of a bot or one whose content
\* does not begin with "--", and runs at most one command branch for any
\* other message.
C28_OneBranchForCommands ==
    /\ (bot.message.author = "bot" \/ ~HasPrefix) => bot.message.sent = 0
    /\ Len(bot.message.ran) <= 1

\* C28 witness: a user's "--say ping" ran the say branch alone and made one
\* call, in the version whose `if`s are not chained.
C28_Witness ==
    /\ bot.version = "1.0.1"
    /\ bot.message.author = "user"
    /\ HasPrefix
    /\ bot.message.ran = <<"say">>
    /\ bot.message.sent = 1

====
